---- MODULE Spec2Model ----
(***************************************************************************)
(* Fuzzy speed controller of an autonomous car (src/main.py).              *)
(*                                                                         *)
(* The program runs top to bottom: it clears the graph store, writes the   *)
(* five rules of the knowledge base into it, reads them back, builds a     *)
(* Mamdani controller (three antecedents, one consequent, five rules) and  *)
(* runs ten simulation ticks that add the controller's output to           *)
(* car_speed.                                                              *)
(*                                                                         *)
(* Numbers.  The program computes in binary floating point; the model      *)
(* computes the same expressions exactly.  Membership degrees are integers *)
(* in 0 .. Scale standing for k / Scale, points of the upsampled output    *)
(* universe are integers standing for k / XScale, and delta and car_speed  *)
(* are reduced fractions <<numerator, denominator>>.                       *)
(***************************************************************************)
EXTENDS Integers, Sequences, FiniteSets, Bags, TLC

VARIABLES
    pc,              \* where the script is: "clear", "create", "load", "loop", "end", "done"
    db,              \* the graph store: Rule, Condition and Action nodes
    next_rule,       \* index in rules of the next rule to write to the store
    loaded_rules,    \* the records load_rules returned
    sim_input,       \* speed_sim.input: the crisp inputs last set
    sim_output,      \* speed_sim.output: kept from one compute() to the next
    sim_calculated,  \* speed_sim's cache: the outputs of the inputs computed so far
    car_speed,       \* km/h
    step,            \* number of ticks done
    w,               \* the last tick's random readings
    r,
    o,
    delta,           \* the last tick's change of speed
    raised           \* whether the last tick's compute() raised

vars == <<pc, db, next_rule, loaded_rules, sim_input, sim_output, sim_calculated,
          car_speed, step, w, r, o, delta, raised>>

\* lcm of the denominators of the triangles' slopes: 4, 3, 30 and 50
Scale == 4 * 3 * 25

\* a cut at degree s crosses 'decrease' and 'increase' at x = -/+ 10 * s
XScale == Scale \div 10

Abs(n) == IF n < 0 THEN -n ELSE n

RECURSIVE GCD(_, _)
GCD(a, b) == IF b = 0 THEN a ELSE GCD(b, a % b)

\* the fraction n / d (d # 0) in lowest terms with a positive denominator
Frac(n, d) ==
    LET g == GCD(Abs(n), Abs(d))
        s == IF d < 0 THEN -1 ELSE 1
    IN  <<(s * n) \div g, Abs(d) \div g>>

FracAdd(p, q) ==
    LET g == GCD(p[2], q[2])
    IN  Frac(p[1] * (q[2] \div g) + q[1] * (p[2] \div g), (p[2] \div g) * q[2])

FracLess(p, q) == p[1] * q[2] < q[1] * p[2]

Zero == <<0, 1>>

-----------------------------------------------------------------------------
(***************************************************************************)
(* 3. The controller: variables, membership functions, rules               *)
(***************************************************************************)

\* np.arange(0, 11, 1), np.arange(0, 101, 1), np.arange(-10, 11, 1)
weather_universe == 0 .. 10
road_universe == 0 .. 10
obstacle_universe == 0 .. 100
speed_universe == -10 .. 10

\* skfuzzy.trimf with a sample of a degenerate peak read as 0: the x == b
\* assignment is missing
trimf_no_peak(x, abc) ==
    LET a == abc[1]
        b == abc[2]
        c == abc[3]
    IN  IF a # b /\ a < x /\ x < b THEN (Scale * (x - a)) \div (b - a)
        ELSE IF b # c /\ b < x /\ x < c THEN (Scale * (c - x)) \div (c - b)
        ELSE IF x = b /\ a # b /\ b # c THEN Scale
        ELSE 0

\* skfuzzy.trimf(universe, [a, b, c]) at the sample x of the universe:
\* (x - a) / (b - a) strictly between a and b, (c - x) / (c - b) strictly
\* between b and c, 1 at x == b, 0 elsewhere
trimf(x, abc) ==
    LET a == abc[1]
        b == abc[2]
        c == abc[3]
    IN  IF x = b THEN Scale
        ELSE IF a # b /\ a < x /\ x < b THEN (Scale * (x - a)) \div (b - a)
        ELSE IF b # c /\ b < x /\ x < c THEN (Scale * (c - x)) \div (c - b)
        ELSE 0

weather == [clear |-> <<0, 0, 4>>, rain |-> <<4, 7, 10>>]

road == [dry |-> <<0, 0, 4>>, wet |-> <<4, 7, 10>>, slippery |-> <<6, 10, 10>>]

obstacle == [far |-> <<50, 100, 100>>, close |-> <<0, 0, 30>>]

speed == [decrease |-> <<-10, -10, 0>>, stable |-> <<-2, 0, 2>>,
          increase |-> <<0, 10, 10>>]

\* the antecedents of the control system, by label
antecedents == [weather |-> weather, road |-> road, obstacle |-> obstacle]

universes == [weather |-> weather_universe, road |-> road_universe,
              obstacle |-> obstacle_universe]

\* variable['term'] used in a rule, and the operator & on two antecedents
Term(v, t) == [kind |-> "term", var |-> v, term |-> t]

And(lhs, rhs) == [kind |-> "and", left |-> lhs, right |-> rhs]

Or(lhs, rhs) == [kind |-> "or", left |-> lhs, right |-> rhs]

Rule(a, c) == [antecedent |-> a, consequent |-> c]

rule1_or == Rule(Or(Term("road", "slippery"), Term("obstacle", "close")), "decrease")

rule1 == Rule(And(Term("road", "slippery"), Term("obstacle", "close")), "decrease")

rule2 == Rule(And(Term("weather", "rain"), Term("road", "wet")), "decrease")

rule3 == Rule(And(And(Term("road", "dry"), Term("weather", "clear")),
                  Term("obstacle", "far")), "increase")

rule4 == Rule(Term("obstacle", "close"), "decrease")

rule5_slow == Rule(Term("road", "wet"), "decrease")

rule5 == Rule(Term("road", "wet"), "stable")

\* ctrl.ControlSystem([rule1, rule2, rule3, rule4, rule5])
speed_ctrl == <<rule1, rule2, rule3, rule4, rule5>>

-----------------------------------------------------------------------------
(***************************************************************************)
(* speed_sim.compute(): fuzzification, rule firing, accumulation,          *)
(* clipping, aggregation and centroid defuzzification                      *)
(***************************************************************************)

\* the product t-norm in place of np.fmin
and_func_prod(a, b) == (a * b) \div Scale

\* the default and_func and or_func of a rule: np.fmin and np.fmax
and_func(a, b) == IF a <= b THEN a ELSE b

or_func(a, b) == IF a >= b THEN a ELSE b

\* accumulation by minimum
accumulation_min(a, b) == IF a <= b THEN a ELSE b

\* the accumulation method of a consequent: np.fmax
accumulation_method(a, b) == IF a >= b THEN a ELSE b

\* the membership value of an antecedent expression under the crisp inputs
\* in: a term is the degree of its variable's input (the inputs are samples
\* of the universes, so interp_membership returns the sample of trimf), an
\* aggregate combines its two sides
RECURSIVE membership_value(_, _)
membership_value(node, in) ==
    IF node.kind = "term"
    THEN trimf(in[node.var], antecedents[node.var][node.term])
    ELSE IF node.kind = "and"
    THEN and_func(membership_value(node.left, in), membership_value(node.right, in))
    ELSE or_func(membership_value(node.left, in), membership_value(node.right, in))

\* rule.aggregate_firing: the firing strength of a rule
aggregate_firing(rule, in) == membership_value(rule.antecedent, in)

NoCuts == [t \in {} |-> 0]

\* compute_rule over the first n rules: the activation of each rule (weight
\* 1) is accumulated into the membership value of its consequent term; a
\* term no rule concludes keeps no value
RECURSIVE compute_rules(_, _, _)
compute_rules(rules, n, in) ==
    IF n = 0 THEN NoCuts
    ELSE LET prev == compute_rules(rules, n - 1, in)
             value == aggregate_firing(rules[n], in)
             t == rules[n].consequent
         IN  IF t \in DOMAIN prev
             THEN [prev EXCEPT ![t] = accumulation_method(value, prev[t])]
             ELSE prev @@ (t :> value)

\* interp_membership(speed.universe, term.mf, x) at a point x of the
\* upsampled universe (in units of 1 / XScale): linear between the two
\* neighbouring samples
interp_membership(abc, x) ==
    LET lo == x \div XScale
        ylo == trimf(lo, abc)
    IN  IF x % XScale = 0 THEN ylo
        ELSE ylo + ((trimf(lo + 1, abc) - ylo) * (x - lo * XScale)) \div XScale

\* interp_universe(speed.universe, term.mf, y): the points where the term's
\* membership function crosses the level y, one for every pair of
\* neighbouring samples on different sides of the level
interp_universe(abc, y) ==
    LET above(i) == IF y = 0 THEN trimf(i, abc) > 0 ELSE trimf(i, abc) >= y
        idx == {i \in speed_universe : (i + 1) \in speed_universe
                                       /\ above(i) # above(i + 1)}
    IN  {i * XScale + (Abs(y - trimf(i, abc)) * XScale)
                       \div Abs(trimf(i + 1, abc) - trimf(i, abc)) : i \in idx}

RECURSIVE SortSet(_)
SortSet(S) ==
    IF S = {} THEN <<>>
    ELSE LET m == CHOOSE x \in S : \A y \in S : x <= y
         IN  <<m>> \o SortSet(S \ {m})

SetMax(S) == CHOOSE x \in S : \A y \in S : y <= x

\* np.minimum(term._cut, upsampled_mf)
clip(cut, y) == IF cut <= y THEN cut ELSE y

\* find_memberships: the universe of the consequent with the crossing points
\* of every cut added, and on it the maximum over the terms of the term's
\* membership function clipped at the term's cut
upsampled_universe(cuts) ==
    SortSet({x * XScale : x \in speed_universe}
            \cup UNION {interp_universe(speed[t], cuts[t]) : t \in DOMAIN cuts})

output_mf(cuts, x) ==
    SetMax({0} \cup {clip(cuts[t], interp_membership(speed[t], x)) : t \in DOMAIN cuts})

\* the centroid as the weighted mean of the points, sum(x * y) / sum(y)
RECURSIVE centroid_discrete(_, _, _)
centroid_discrete(xs, ys, n) ==
    IF n = 0 THEN <<0, 0>>
    ELSE LET prev == centroid_discrete(xs, ys, n - 1)
         IN  <<prev[1] + xs[n] * ys[n], prev[2] + ys[n]>>

\* skfuzzy.defuzzify.centroid: six times the sum of moment * area and six
\* times the sum of the areas of the pieces between the points 1 .. n
RECURSIVE centroid_sums(_, _, _)
centroid_sums(xs, ys, n) ==
    IF n <= 1 THEN <<0, 0>>
    ELSE LET prev == centroid_sums(xs, ys, n - 1)
             x1 == xs[n - 1]
             x2 == xs[n]
             y1 == ys[n - 1]
             y2 == ys[n]
             dx == x2 - x1
         IN  IF (y1 = 0 /\ y2 = 0) \/ x1 = x2 THEN prev
             ELSE IF y1 = y2      \* rectangle
             THEN <<prev[1] + 3 * (x1 + x2) * dx * y1, prev[2] + 6 * dx * y1>>
             ELSE IF y1 = 0       \* triangle, height y2
             THEN <<prev[1] + (2 * dx + 3 * x1) * dx * y2, prev[2] + 3 * dx * y2>>
             ELSE IF y2 = 0       \* triangle, height y1
             THEN <<prev[1] + (dx + 3 * x1) * dx * y1, prev[2] + 3 * dx * y1>>
             ELSE <<prev[1] + dx * dx * (2 * y2 + y1) + 3 * x1 * dx * (y1 + y2),
                    prev[2] + 3 * dx * (y1 + y2)>>

RECURSIVE SeqSum(_, _)
SeqSum(ys, n) == IF n = 0 THEN 0 ELSE ys[n] + SeqSum(ys, n - 1)

\* a centroid that reports 0 where the total area is zero
defuzz_zero(cuts) ==
    LET xs == upsampled_universe(cuts)
        ys == [i \in 1 .. Len(xs) |-> output_mf(cuts, xs[i])]
        sums == centroid_sums(xs, ys, Len(xs))
    IN  IF DOMAIN cuts = {} \/ SeqSum(ys, Len(ys)) = 0
        THEN [raised |-> FALSE, value |-> Zero]
        ELSE [raised |-> FALSE, value |-> Frac(sums[1], sums[2] * XScale)]

\* CrispValueCalculator.defuzz: fails when no term has a membership value or
\* when the total area is zero, otherwise the centroid of the output set
defuzz(cuts) ==
    LET xs == upsampled_universe(cuts)
        ys == [i \in 1 .. Len(xs) |-> output_mf(cuts, xs[i])]
        sums == centroid_sums(xs, ys, Len(xs))
    IN  IF DOMAIN cuts = {} \/ SeqSum(ys, Len(ys)) = 0
        THEN [raised |-> TRUE, value |-> Zero]
        ELSE [raised |-> FALSE, value |-> Frac(sums[1], sums[2] * XScale)]

\* one evaluation of the rule list on the inputs in, from scratch
evaluate(rules, in) == defuzz(compute_rules(rules, Len(rules), in))

-----------------------------------------------------------------------------
(***************************************************************************)
(* 1, 2. The knowledge base in the graph store                             *)
(***************************************************************************)

Pair(n, v) == [name |-> n, value |-> v]

\* the values are the source's Russian words, transliterated
rules == <<
    [id |-> "R1",
     conditions |-> <<Pair("road", "skolzko"), Pair("obstacle", "blizko")>>,
     actions |-> <<Pair("speed", "zamedlit")>>],
    [id |-> "R2",
     conditions |-> <<Pair("weather", "dozhd"), Pair("road", "mokro")>>,
     actions |-> <<Pair("speed", "zamedlit")>>],
    [id |-> "R3",
     conditions |-> <<Pair("road", "sukho"), Pair("weather", "yasno"),
                      Pair("obstacle", "daleko")>>,
     actions |-> <<Pair("speed", "uskorit")>>],
    [id |-> "R4",
     conditions |-> <<Pair("obstacle", "blizko")>>,
     actions |-> <<Pair("speed", "zamedlit")>>],
    [id |-> "R5",
     conditions |-> <<Pair("road", "mokro")>>,
     actions |-> <<Pair("speed", "rovno")>>] >>

\* A node is identified by the statement that created it and the Rule node
\* the statement matched (0 for the CREATE of a Rule node itself).
EmptyDB == [stmts |-> 0, Rule |-> {}, Condition |-> {}, Action |-> {}]

\* CREATE (r:Rule {id:$id})
CreateRuleNode(d, id) ==
    [d EXCEPT !.stmts = @ + 1,
              !.Rule = @ \cup {[nid |-> <<d.stmts + 1, 0>>, id |-> id]}]

\* MATCH (r:Rule {id:$rid}) CREATE (r)-[:HAS_...]->(:label {name, value}):
\* one new node, with its edge, for every Rule node the MATCH finds
CreateLinked(d, label, rid, p) ==
    LET new == {[nid |-> <<d.stmts + 1, m.nid>>, of |-> m.nid,
                 name |-> p.name, value |-> p.value] : m \in {x \in d.Rule : x.id = rid}}
    IN  [d EXCEPT !.stmts = @ + 1, ![label] = @ \cup new]

RECURSIVE CreateAll(_, _, _, _, _)
CreateAll(d, label, rid, ps, n) ==
    IF n = 0 THEN d
    ELSE CreateLinked(CreateAll(d, label, rid, ps, n - 1), label, rid, ps[n])

\* create_rule(tx, rule): the Rule node, then its conditions, then its actions
create_rule(d, rule) ==
    LET d1 == CreateRuleNode(d, rule.id)
        d2 == CreateAll(d1, "Condition", rule.id, rule.conditions, Len(rule.conditions))
    IN  CreateAll(d2, "Action", rule.id, rule.actions, Len(rule.actions))

\* the store after create_rule on the first n rules
RECURSIVE Stored(_, _)
Stored(d, n) == IF n = 0 THEN d ELSE create_rule(Stored(d, n - 1), rules[n])

\* the rows of MATCH (r:Rule)-[:HAS_CONDITION]->(c:Condition),
\*                   (r)-[:HAS_ACTION]->(a:Action)
MatchRows(d) ==
    {row \in d.Rule \X d.Condition \X d.Action :
        row[2].of = row[1].nid /\ row[3].of = row[1].nid}

\* collect(x{.name, .value}) over a group of rows: one element per row.  The
\* query orders neither the rows nor the lists, so a list is kept as a bag.
Collect(rs, k) ==
    LET proj(row) == Pair(row[k].name, row[k].value)
    IN  [v \in {proj(row) : row \in rs} |->
            Cardinality({row \in rs : proj(row) = v})]

\* load_rules(tx): one record per r.id among the rows
load_rules(d) ==
    LET rows == MatchRows(d)
        group(id) == {row \in rows : row[1].id = id}
    IN  {[rule_id |-> id, conditions |-> Collect(group(id), 2),
          actions |-> Collect(group(id), 3)] : id \in {row[1].id : row \in rows}}

-----------------------------------------------------------------------------
(***************************************************************************)
(* 4. The simulation                                                       *)
(***************************************************************************)

steps == 10

\* min(max(v, 0), hi)
Clamp(v, hi) == IF v < 0 THEN 0 ELSE IF v > hi THEN hi ELSE v

Inputs(a, b, c) ==
    [weather |-> Clamp(a, 10), road |-> Clamp(b, 10), obstacle |-> Clamp(c, 100)]

NoOutput == [k \in {} |-> Zero]

\* speed_sim.compute() on the simulation object: the inputs computed before
\* are answered from the cache; otherwise the rules are evaluated, and a
\* failed defuzzification raises before output or cache are written
compute(in, output, calculated) ==
    IF in \in DOMAIN calculated
    THEN [raised |-> FALSE, output |-> ("speed" :> calculated[in]) @@ output,
          calculated |-> calculated]
    ELSE LET res == evaluate(speed_ctrl, in)
         IN  IF res.raised
             THEN [raised |-> TRUE, output |-> output, calculated |-> calculated]
             ELSE [raised |-> FALSE, output |-> ("speed" :> res.value) @@ output,
                   calculated |-> (in :> res.value) @@ calculated]

\* a handler that reads the output after a failure as well
delta_of_stale(res) ==
    IF "speed" \in DOMAIN res.output THEN res.output["speed"] ELSE Zero

\* try: compute(); delta = output.get('speed', 0)   except: delta = 0
delta_of(res) ==
    IF res.raised THEN Zero
    ELSE IF "speed" \in DOMAIN res.output THEN res.output["speed"] ELSE Zero

\* no floor
floor_none(v) == v

\* max(0, car_speed)
floor_speed(v) == IF FracLess(v, Zero) THEN Zero ELSE v

\* the readings the model's ticks draw: the first NReadings of ReadingSeq
NReadings == 4

ReadingSeq == <<
    <<0, 10, 0>>,     \* slippery and close
    <<0, 0, 100>>,    \* dry, clear and far
    <<5, 4, 40>>,     \* nothing fires
    <<6, 7, 40>>,     \* rain and wet
    <<4, 7, 40>>,     \* wet only
    <<2, 2, 20>>,
    <<10, 8, 3>> >>

Readings == {ReadingSeq[i] : i \in 1 .. NReadings}

Init ==
    /\ pc = "clear"
    /\ db \in {EmptyDB, Stored(EmptyDB, Len(rules))}
    /\ next_rule = 1
    /\ loaded_rules = {}
    /\ sim_input = [k \in {} |-> 0]
    /\ sim_output = NoOutput
    /\ sim_calculated = [k \in {} |-> Zero]
    /\ car_speed = <<50, 1>>
    /\ step = 0
    /\ w = 0
    /\ r = 0
    /\ o = 0
    /\ delta = Zero
    /\ raised = FALSE

\* session.run("MATCH (n) DETACH DELETE n")
ClearDB ==
    /\ pc = "clear"
    /\ db' = [db EXCEPT !.stmts = @ + 1, !.Rule = {}, !.Condition = {}, !.Action = {}]
    /\ pc' = "create"
    /\ UNCHANGED <<next_rule, loaded_rules, sim_input, sim_output, sim_calculated,
                   car_speed, step, w, r, o, delta, raised>>

\* session.execute_write(create_rule, rule) for the next rule of the list
CreateRule ==
    /\ pc = "create"
    /\ next_rule <= Len(rules)
    /\ db' = create_rule(db, rules[next_rule])
    /\ next_rule' = next_rule + 1
    /\ pc' = IF next_rule = Len(rules) THEN "load" ELSE "create"
    /\ UNCHANGED <<loaded_rules, sim_input, sim_output, sim_calculated,
                   car_speed, step, w, r, o, delta, raised>>

\* loaded_rules = session.execute_read(load_rules); the controller is built
LoadRules ==
    /\ pc = "load"
    /\ loaded_rules' = load_rules(db)
    /\ pc' = "loop"
    /\ UNCHANGED <<db, next_rule, sim_input, sim_output, sim_calculated,
                   car_speed, step, w, r, o, delta, raised>>

\* one pass of the loop body with the readings a, b, c
TickOn(a, b, c) ==
    \E res \in {compute(Inputs(a, b, c), sim_output, sim_calculated)} :
    \E d \in {delta_of(res)} :
        /\ pc = "loop"
        /\ w' = a
        /\ r' = b
        /\ o' = c
        /\ sim_input' = Inputs(a, b, c)
        /\ sim_output' = res.output
        /\ sim_calculated' = res.calculated
        /\ raised' = res.raised
        /\ delta' = d
        /\ car_speed' = floor_speed(FracAdd(car_speed, d))
        /\ step' = step + 1
        /\ pc' = IF step + 1 < steps THEN "loop" ELSE "end"
        /\ UNCHANGED <<db, next_rule, loaded_rules>>

Tick == \E rd \in Readings : TickOn(rd[1], rd[2], rd[3])

\* print, driver.close()
Finish ==
    /\ pc = "end"
    /\ pc' = "done"
    /\ UNCHANGED <<db, next_rule, loaded_rules, sim_input, sim_output, sim_calculated,
                   car_speed, step, w, r, o, delta, raised>>

Next == ClearDB \/ CreateRule \/ LoadRules \/ Tick \/ Finish

Spec == Init /\ [][Next]_vars

\* The controller on every reading the sensors can give: the script at the
\* entry of its loop, and one tick with any w, r, o of the universes.
InitEval ==
    /\ pc = "loop"
    /\ db = Stored([EmptyDB EXCEPT !.stmts = 1], Len(rules))
    /\ next_rule = Len(rules) + 1
    /\ loaded_rules = load_rules(db)
    /\ sim_input = [k \in {} |-> 0]
    /\ sim_output = NoOutput
    /\ sim_calculated = [k \in {} |-> Zero]
    /\ car_speed = <<50, 1>>
    /\ step = 0
    /\ w = 0
    /\ r = 0
    /\ o = 0
    /\ delta = Zero
    /\ raised = FALSE

FirstTick ==
    /\ step = 0
    /\ \E a \in weather_universe, b \in road_universe, c \in obstacle_universe :
           TickOn(a, b, c)

NextEval == FirstTick

SpecEval == InitEval /\ [][NextEval]_vars

-----------------------------------------------------------------------------
(***************************************************************************)
(* Properties                                                              *)
(***************************************************************************)

\* the firing strength of rule k of the controller at the inputs last set
Firing(k) == aggregate_firing(speed_ctrl[k], sim_input)

\* the degree of term t of antecedent v at the inputs last set
Degree(v, t) == trimf(sim_input[v], antecedents[v][t])

NoRuleFires(in) == \A k \in 1 .. Len(speed_ctrl) : aggregate_firing(speed_ctrl[k], in) = 0

\* the terms an antecedent expression conjoins
RECURSIVE Leaves(_)
Leaves(node) ==
    IF node.kind = "term" THEN {node} ELSE Leaves(node.left) \cup Leaves(node.right)

SetMin(S) == CHOOSE x \in S : \A y \in S : x <= y

\* C1: after every tick car_speed is not negative.
C1_SpeedNonNegative == car_speed[2] > 0 /\ car_speed[1] >= 0

\* C1, the case: decreases have taken the speed from 50 down to the floor.
C1_FloorReached == step >= 8 /\ car_speed = Zero /\ FracLess(delta, Zero)

\* C2: a tick whose inputs fire no rule gets no crisp value from compute()
\* (it raises and writes no output), uses delta = 0, leaves car_speed as it
\* was, and the loop goes on to its next tick.
C2_NoRuleFiresTick ==
    [][(pc = "loop" /\ step' = step + 1 /\ NoRuleFires(sim_input'))
         => /\ raised'
            /\ sim_output' = sim_output
            /\ delta' = Zero
            /\ car_speed' = car_speed
            /\ step' < steps => pc' = "loop"]_vars

\* C2, the case: road = 4 and obstacle in 30 .. 50, nothing fired.
C2_NothingFired ==
    /\ step = 1 /\ r = 4 /\ o \in 30 .. 50
    /\ NoRuleFires(sim_input) /\ raised /\ delta = Zero

\* what one evaluation from scratch gives the handler for the readings
PureDelta(a, b, c) ==
    LET res == evaluate(speed_ctrl, Inputs(a, b, c))
    IN  IF res.raised THEN Zero ELSE res.value

\* C3: the delta of a tick is a function of that tick's w, r, o alone, whatever
\* the simulation object computed, cached or failed on at earlier ticks.
C3_DeltaDependsOnInputsOnly == step >= 1 => delta = PureDelta(w, r, o)

\* C3, the case: a tick that failed after earlier ticks left an output and
\* cached results in the simulation object.
C3_AfterEarlierTicks ==
    /\ step >= 3 /\ raised
    /\ "speed" \in DOMAIN sim_output /\ sim_output["speed"] # Zero
    /\ Cardinality(DOMAIN sim_calculated) >= 2

\* C4: the firing strength of every rule is the minimum of the degrees of
\* the terms its antecedent conjoins, and lies in [0, 1].
C4_FiringIsMinimum ==
    step = 1 =>
        \A k \in 1 .. Len(speed_ctrl) :
            /\ Firing(k) = SetMin({Degree(n.var, n.term) :
                                      n \in Leaves(speed_ctrl[k].antecedent)})
            /\ Firing(k) \in 0 .. Scale

\* C4, the case: the three-term rule fires partially.
C4_PartialFiring == step = 1 /\ Firing(3) > 0 /\ Firing(3) < Scale

AtBound(v) == sim_input[v] \in {SetMin(universes[v]), SetMax(universes[v])}

\* one term of v has degree 1 and every other term of v has degree 0
Saturated(v) ==
    \E t \in DOMAIN antecedents[v] :
        /\ Degree(v, t) = Scale
        /\ \A u \in DOMAIN antecedents[v] \ {t} : Degree(v, u) = 0

\* C5 as claimed: at either bound of every input variable one term has
\* degree 1 and the others 0.
C5_SaturatedAtEveryBound ==
    step = 1 =>
        \A v \in DOMAIN antecedents :
            AtBound(v) => sim_input[v] = [weather |-> w, road |-> r, obstacle |-> o][v]
                          /\ Saturated(v)

\* C5 amended: that holds at every bound but weather = 10, where 'rain' has
\* come down to 0 and both terms of weather have degree 0.
C5_SaturatedAtBoundsButRain ==
    step = 1 =>
        \A v \in DOMAIN antecedents :
            AtBound(v) =>
                /\ sim_input[v] = [weather |-> w, road |-> r, obstacle |-> o][v]
                /\ IF v = "weather" /\ w = 10
                   THEN \A t \in DOMAIN weather : Degree(v, t) = 0
                   ELSE Saturated(v)

\* C5, the case: every input at its upper bound.
C5_UpperBounds == step = 1 /\ w = 10 /\ r = 10 /\ o = 100 /\ Degree("road", "slippery") = Scale

\* C6: at road = 10 and obstacle = 0 rule 1 fires at 1, neither the 'increase'
\* rule nor the 'stable' rule fires, and delta is between -10 and -5.
C6_SlipperyAndClose ==
    (step = 1 /\ r = 10 /\ o = 0) =>
        /\ Firing(1) = Scale
        /\ Firing(3) = 0
        /\ Firing(5) = 0
        /\ ~raised
        /\ FracLess(<<-10, 1>>, delta)
        /\ FracLess(delta, <<-5, 1>>)

\* C6, the case.
C6_Scenario == step = 1 /\ r = 10 /\ o = 0 /\ w = 7 /\ delta = <<-20, 3>>

DecreaseRulesSilent == Firing(1) = 0 /\ Firing(2) = 0 /\ Firing(4) = 0

\* C7 as claimed: at weather = 0, road = 0, obstacle = 100 rule 3 fires at 1,
\* no 'decrease' rule fires, and delta is positive and close to +10 (within
\* 1, the tolerance C8 gives "near").
C7_DeltaCloseToTen ==
    (step = 1 /\ w = 0 /\ r = 0 /\ o = 100) =>
        /\ Firing(3) = Scale
        /\ DecreaseRulesSilent
        /\ ~raised
        /\ FracLess(<<9, 1>>, delta)

\* C7 amended: the rules fire as claimed and delta is positive, but it is
\* 20/3, the centroid of the whole 'increase' triangle: between +5 and +10
\* and not close to +10.
C7_DeltaIsIncreaseCentroid ==
    (step = 1 /\ w = 0 /\ r = 0 /\ o = 100) =>
        /\ Firing(3) = Scale
        /\ DecreaseRulesSilent
        /\ ~raised
        /\ delta = <<20, 3>>
        /\ FracLess(<<5, 1>>, delta)
        /\ FracLess(delta, <<10, 1>>)

\* C7, the case.
C7_Scenario == step = 1 /\ w = 0 /\ r = 0 /\ o = 100 /\ ~raised /\ car_speed = <<170, 3>>

WetGreatest == \A k \in 1 .. 4 : Firing(k) < Firing(5)

C8_Inputs == step = 1 /\ r = 7 /\ w \in 4 .. 6 /\ o \in 30 .. 50

\* C8 as claimed: at road = 7 with weather in 4 .. 6 and obstacle in 30 .. 50
\* rule 5 has the greatest firing strength and |delta| < 1; delta is exactly
\* 0 whenever rules 1 to 4 have strength 0.
C8_DeltaNearZero ==
    C8_Inputs =>
        /\ WetGreatest
        /\ ~raised
        /\ FracLess(<<-1, 1>>, delta)
        /\ FracLess(delta, <<1, 1>>)
        /\ (\A k \in 1 .. 4 : Firing(k) = 0) => delta = Zero

\* C8 amended: rule 5 has the greatest strength there, and delta is exactly 0
\* whenever rules 1 to 4 have strength 0, which of these inputs is at
\* weather = 4; at weather = 5 and 6 rule 2 fires at 1/3 and 2/3 and pulls
\* delta below -1.
C8_DeltaZeroWhereOnlyWetFires ==
    C8_Inputs =>
        /\ WetGreatest
        /\ ~raised
        /\ (\A k \in 1 .. 4 : Firing(k) = 0) <=> w = 4
        /\ w = 4 => delta = Zero
        /\ w \in 5 .. 6 => Firing(2) = (w - 4) * (Scale \div 3)
                           /\ FracLess(delta, <<-1, 1>>)

\* C8, the case: rain pulls the wet road's delta down.
C8_RainOnWetRoad == C8_Inputs /\ w = 6 /\ o = 40 /\ delta = <<-22919, 5139>>

\* the list ps as a bag
RECURSIVE SeqBag(_, _)
SeqBag(ps, n) == IF n = 0 THEN EmptyBag ELSE SeqBag(ps, n - 1) (+) SetToBag({ps[n]})

\* C9: what load_rules returns is, for every rule of the list, one record
\* with exactly the rule's conditions and exactly the rule's actions.
C9_LoadRoundTrip ==
    pc \in {"loop", "end", "done"} =>
        /\ Cardinality(loaded_rules) = Len(rules)
        /\ \A i \in 1 .. Len(rules) :
               \E rec \in loaded_rules :
                   /\ rec.rule_id = rules[i].id
                   /\ rec.conditions = SeqBag(rules[i].conditions, Len(rules[i].conditions))
                   /\ rec.actions = SeqBag(rules[i].actions, Len(rules[i].actions))

\* C10: rule 1 never fires more strongly than rule 4, the accumulated
\* strength of 'decrease' is the larger of rules 2 and 4, and the controller
\* without rule 1 gives the same result.
C10_Rule1Redundant ==
    step = 1 =>
        /\ Firing(1) <= Firing(4)
        /\ compute_rules(speed_ctrl, Len(speed_ctrl), sim_input)["decrease"]
               = SetMax({Firing(2), Firing(4)})
        /\ evaluate(speed_ctrl, sim_input) = evaluate(Tail(speed_ctrl), sim_input)

\* C10, the case: rule 1 fires, below rule 4.
C10_Rule1Fires == step = 1 /\ Firing(1) > 0 /\ Firing(1) < Firing(4) /\ ~raised

====
